---------------------------- MODULE Spec2Model ----------------------------
(***************************************************************************)
(* The caching reverse proxy of whitehouse-actions-tracker                 *)
(* (src/server/server.js): per-client admission control, URL allow-list,   *)
(* cache-aside lookup in the shared store and the upstream fetch.          *)
(*                                                                         *)
(* Strings are sequences of one-character strings, so that decoding and    *)
(* the allow-list expression are computed character by character.          *)
(* Time passes in ticks, the unit of the rate limiter's duration, of its   *)
(* block duration and of the cache TTL.  The store keeps, as Redis does,   *)
(* the time each key still has to live; the server reads no clock.         *)
(***************************************************************************)
EXTENDS Integers, Sequences, FiniteSets, TLC

(***************************************************************************)
(* Characters                                                              *)
(***************************************************************************)
HexLower == <<"0","1","2","3","4","5","6","7","8","9","a","b","c","d","e","f">>

HexUpper == <<"0","1","2","3","4","5","6","7","8","9","A","B","C","D","E","F">>

LowerAlpha == <<"a","b","c","d","e","f","g","h","i","j","k","l","m","n","o","p","q","r","s","t","u","v","w","x","y","z">>

UpperAlpha == <<"A","B","C","D","E","F","G","H","I","J","K","L","M","N","O","P","Q","R","S","T","U","V","W","X","Y","Z">>

\* The printable ASCII characters, code 32 first (the backquote, which a
\* string cannot hold, is written "bq").
Ascii == <<" ","!","\"","#","$","%","&","'","(",")","*","+",",","-",".","/","0","1","2","3","4","5","6","7","8","9",":",";","<","=",">","?","@","A","B","C","D","E","F","G","H","I","J","K","L","M","N","O","P","Q","R","S","T","U","V","W","X","Y","Z","[","\\","]","^","_","bq","a","b","c","d","e","f","g","h","i","j","k","l","m","n","o","p","q","r","s","t","u","v","w","x","y","z","{","|","}","~">>

IndexOf(seq, c) == IF \E i \in 1..Len(seq) : seq[i] = c
                   THEN CHOOSE i \in 1..Len(seq) : seq[i] = c
                   ELSE 0

IsHex(c) == IndexOf(HexLower, c) > 0 \/ IndexOf(HexUpper, c) > 0

HexVal(c) == IF IndexOf(HexLower, c) > 0 THEN IndexOf(HexLower, c) - 1
             ELSE IndexOf(HexUpper, c) - 1

\* The character of an ASCII code; a control character is written "^".
CharOf(b) == IF b >= 32 /\ b <= 126 THEN Ascii[b - 31] ELSE "^"

\* Case folding of the /i flag, ASCII letters only.
ToLower(c) == IF IndexOf(UpperAlpha, c) > 0 THEN LowerAlpha[IndexOf(UpperAlpha, c)]
              ELSE c

(***************************************************************************)
(* decodeURIComponent: every %XX becomes the character of code XX; a "%"   *)
(* not followed by two hex digits throws URIError, and so does an escape   *)
(* of a byte >= 0x80 that starts no well-formed UTF-8 sequence (the inputs *)
(* modelled hold such a byte only alone).                                  *)
(***************************************************************************)
RECURSIVE DecodeFrom(_, _)
DecodeFrom(s, i) ==
    IF i > Len(s) THEN [ok |-> TRUE, str |-> <<>>]
    ELSE IF s[i] # "%"
         THEN LET rest == DecodeFrom(s, i + 1)
              IN  [ok |-> rest.ok, str |-> <<s[i]>> \o rest.str]
    ELSE IF i + 2 > Len(s) \/ ~IsHex(s[i + 1]) \/ ~IsHex(s[i + 2])
         THEN [ok |-> FALSE, str |-> <<>>]
    ELSE LET b == 16 * HexVal(s[i + 1]) + HexVal(s[i + 2])
             rest == DecodeFrom(s, i + 3)
         IN  IF b >= 128 THEN [ok |-> FALSE, str |-> <<>>]
             ELSE [ok |-> rest.ok, str |-> <<CharOf(b)>> \o rest.str]

decodeURIComponent(s) ==
    LET r == DecodeFrom(s, 1)
    IN  IF r.ok THEN r ELSE [ok |-> FALSE, str |-> <<>>]

(***************************************************************************)
(* isValidWhiteHouseUrl: the expression                                     *)
(*   /^https:\/\/www\.whitehouse\.gov\/(feed|briefing-room|wp-json)/i      *)
(* tested on the string: a case-insensitive prefix match, nothing more.    *)
(***************************************************************************)
Origin == <<"h","t","t","p","s",":","/","/","w","w","w",".","w","h","i","t","e","h","o","u","s","e",".","g","o","v","/">>

Feed == <<"f","e","e","d">>

BriefingRoom == <<"b","r","i","e","f","i","n","g","-","r","o","o","m">>

WpJson == <<"w","p","-","j","s","o","n">>

Prefixes == {Feed, BriefingRoom, WpJson}

StartsWithCI(s, p) ==
    /\ Len(s) >= Len(p)
    /\ \A i \in 1..Len(p) : ToLower(s[i]) = ToLower(p[i])

isValidWhiteHouseUrl(url) ==
    \E p \in Prefixes : StartsWithCI(url, Origin \o p)


(***************************************************************************)
(* Configuration (environment variables with defaults in the source; the   *)
(* values here are a small configuration with Duration < BlockDuration,    *)
(* as in the defaults 60 and 300)                                          *)
(***************************************************************************)
\* RATE_LIMIT_POINTS: requests admitted per window.
Points == 2

\* RATE_LIMIT_DURATION: length of the window, in ticks.
Duration == 2

\* RATE_LIMIT_BLOCK: length of the block, in ticks.
BlockDuration == 3

\* CACHE_TTL: lifetime of a cache entry, in ticks.
CACHE_TTL == 2

(***************************************************************************)
(* Bounds of the exploration                                               *)
(***************************************************************************)
MaxReq == 2

MaxAdmissionReq == 4

MaxCacheReq == 3

MaxFailureReq == 2

MaxLiveReq == 2

\* Page loads and manual refreshes of the client.
MaxLoads == 3

\* Input events of the search field.
MaxInputs == 3

\* The clock of the debounce advances in steps of DebounceWait \div TicksPerWait.
TicksPerWait == 3

\* The client's clock runs from ClockStart for ClockSpan ticks.
ClockStart == 8

ClockSpan == 3

\* The handler instances that can be in flight together.
Slots == {1, 2}

(***************************************************************************)
(* Inputs: the url query parameter, the client address, upstream's answer  *)
(***************************************************************************)
\* req.query.url absent (undefined) or empty: both are falsy.
Missing == <<>>

FeedUrl == Origin \o Feed \o <<"/">>

\* The feed URL with ":" and "/" percent-encoded once more.
EncodedFeedUrl == <<"h","t","t","p","s","%","3","A","%","2","F","%","2","F","w","w","w",".","w","h","i","t","e","h","o","u","s","e",".","g","o","v","%","2","F","f","e","e","d","%","2","F">>

EvilUrl == <<"h","t","t","p","s",":","/","/","e","v","i","l",".","e","x","a","m","p","l","e",".","c","o","m">>

RelativeUrl == <<"/">> \o Feed \o <<"/">>

\* A path that leaves the allowed prefix through a dot-dot segment.
TraversalUrl == Origin \o Feed \o <<"/",".",".","/","a","d","m","i","n">>

\* The same with the dots percent-encoded twice: one decoding leaves %2e%2e.
DoubleEncodedUrl == Origin \o Feed \o <<"/","%","2","5","2","e","%","2","5","2","e","/","a","d","m","i","n">>

\* An undecodable percent sequence.
MalformedUrl == Origin \o Feed \o <<"/","%">>

Queries == {Missing, FeedUrl, EncodedFeedUrl, EvilUrl, RelativeUrl,
            TraversalUrl, DoubleEncodedUrl, MalformedUrl}

NoHeader == ""

ForwardedFor == {NoHeader, "203.0.113.7"}

RemoteAddress == {"198.51.100.1"}

\* req.headers['x-forwarded-for'] || req.socket.remoteAddress
ClientIP(xff, remote) == IF xff # NoHeader THEN xff ELSE remote

Clients == {ClientIP(x, a) : x \in ForwardedFor, a \in RemoteAddress}

\* A Content-Type header value: the media type and its charset parameter.
ContentType(media, charset) == [media |-> media, charset |-> charset]

NoContentType == ContentType("", "")

\* What upstream answers to a GET that succeeds: the bytes of the body and the
\* Content-Type.  "<1" and "<2" in UTF-8, and "<e-acute" in ISO-8859-1.
Utf8FeedV1 == [body |-> <<60, 49>>, ctype |-> ContentType("application/rss+xml", "utf-8")]

Utf8FeedV2 == [body |-> <<60, 50>>, ctype |-> ContentType("text/xml", "utf-8")]

Latin1Feed == [body |-> <<60, 233>>, ctype |-> ContentType("text/xml", "ISO-8859-1")]

Upstream == {Utf8FeedV1, Utf8FeedV2, Latin1Feed}

NoUpstream == [body |-> <<>>, ctype |-> NoContentType]

(***************************************************************************)
(* response.text() of node-fetch decodes the bytes as UTF-8, with U+FFFD   *)
(* for every byte that starts no well-formed sequence; res.send(string)    *)
(* of Express writes the string in UTF-8 and sets the charset parameter of *)
(* the Content-Type to utf-8.                                              *)
(***************************************************************************)
ReplacementChar == 65533

IsContinuation(b) == b >= 128 /\ b <= 191

RECURSIVE Utf8DecodeFrom(_, _)
Utf8DecodeFrom(b, i) ==
    IF i > Len(b) THEN <<>>
    ELSE IF b[i] < 128 THEN <<b[i]>> \o Utf8DecodeFrom(b, i + 1)
    ELSE IF b[i] >= 194 /\ b[i] <= 223 /\ i + 1 <= Len(b) /\ IsContinuation(b[i + 1])
    THEN <<(b[i] - 192) * 64 + (b[i + 1] - 128)>> \o Utf8DecodeFrom(b, i + 2)
    ELSE IF b[i] >= 224 /\ b[i] <= 239 /\ i + 2 <= Len(b)
            /\ IsContinuation(b[i + 1]) /\ IsContinuation(b[i + 2])
            /\ (b[i] - 224) * 4096 + (b[i + 1] - 128) * 64 >= 2048
    THEN <<(b[i] - 224) * 4096 + (b[i + 1] - 128) * 64 + (b[i + 2] - 128)>>
            \o Utf8DecodeFrom(b, i + 3)
    ELSE <<ReplacementChar>> \o Utf8DecodeFrom(b, i + 1)

\* await response.text()
text(body) == Utf8DecodeFrom(body, 1)

Utf8EncodeChar(c) ==
    IF c < 128 THEN <<c>>
    ELSE IF c < 2048 THEN <<192 + (c \div 64), 128 + (c % 64)>>
    ELSE <<224 + (c \div 4096), 128 + ((c \div 64) % 64), 128 + (c % 64)>>

RECURSIVE Utf8Encode(_)
Utf8Encode(str) ==
    IF str = <<>> THEN <<>> ELSE Utf8EncodeChar(Head(str)) \o Utf8Encode(Tail(str))

\* setCharset(type, 'utf-8') in res.send
setCharset(ctype) == [ctype EXCEPT !.charset = "utf-8"]

Json == ContentType("application/json", "utf-8")

\* The decoding of each input, computed once.
Decoded == [q \in Queries |-> decodeURIComponent(q)]

\* The inputs that decode to a URL the allow-list accepts.
AllowedQueries == {q \in Queries : Decoded[q].ok /\ isValidWhiteHouseUrl(Decoded[q].str)}

\* The keys the cache can hold: the decoded inputs the allow-list accepts.
Keys == {Decoded[q].str : q \in AllowedQueries}

(***************************************************************************)
(* State                                                                   *)
(***************************************************************************)
VARIABLES
    rl,           \* the rate limiter's keys in the store: client -> counter
    cache,        \* the cache keys in the store: decoded URL -> entry
    inflight,     \* the requests being handled, each at one of its awaits
    nreq,         \* requests received so far
    last,         \* the response sent last
    lastConsume,  \* history: the last call of rateLimiter.consume
    window,       \* history: per client, its current window of admissions
    recent,       \* history: per client, the ages of its admissions younger than Duration
    stored,       \* history: per cache key, the response of the call that wrote it last
    storeUp,      \* whether the store answers the commands of redisClient
    failedAt,     \* history: the requests received when consume last failed on the store
    now,          \* client: Date.now(), in ticks
    lsData,       \* client: localStorage item whActionsCache
    lsTime,       \* client: localStorage item whActionsCacheTime
    retryCount,   \* client: the module-level retry counter
    loads,        \* client: the runs of fetchPresidentialActions in progress
    view,         \* client: the page: cards, error message, loading spinner
    lastLoad,     \* client history: the run that ended last
    lastCheck,    \* client history: the last run of checkCache
    written,      \* client history: the list and the time of the last cacheData
    nloads,       \* client history: page loads and refreshes so far
    search,       \* client: the search input and the timers of its debounce
    searchLog     \* client history: the input events and the runs of handleSearch

serverVars == <<rl, cache, inflight, nreq, last, lastConsume, window, recent, stored, storeUp, failedAt>>

clientVars == <<now, lsData, lsTime, retryCount, loads, view, lastLoad, lastCheck, written, nloads>>

searchVars == <<search, searchLog>>

vars == <<rl, cache, inflight, nreq, last, lastConsume, window, recent, stored, storeUp, failedAt,
          now, lsData, lsTime, retryCount, loads, view, lastLoad, lastCheck, written, nloads,
          search, searchLog>>

\* A key the store does not hold has no time to live.
NoCounter == [consumed |-> 0, ttl |-> 0]

NoEntry == [data |-> <<>>, ctype |-> NoContentType, maxAge |-> 0, ttl |-> 0]

\* A response: the status, the bytes of the body, the Content-Type, the
\* max-age of Cache-Control, and the error member of a JSON error body.
NoResponse == [status |-> 0, body |-> <<>>, ctype |-> NoContentType, maxAge |-> 0,
               error |-> ""]

MkResp(status, body, ctype, maxAge) ==
    [status |-> status, body |-> body, ctype |-> ctype, maxAge |-> maxAge,
     error |-> ""]

\* res.status(s).json({ error: msg })
JsonError(status, msg) == [MkResp(status, <<>>, Json, 0) EXCEPT !.error = msg]

(***************************************************************************)
(* rateLimiter.consume(key) of RateLimiterRedis with points, duration and  *)
(* blockDuration: one atomic increment in the store (the key is created    *)
(* with the window's expiry when absent), then the comparison with points; *)
(* the first consumption beyond points sets the key's expiry to the block  *)
(* duration, later ones leave it.                                          *)
(***************************************************************************)
\* A variant that loses the increment of a key that exists.
UpsertLostUpdate(e) ==
    IF e.ttl > 0 THEN e ELSE [consumed |-> 1, ttl |-> Duration]

Upsert(e) ==
    IF e.ttl > 0
    THEN [e EXCEPT !.consumed = @ + 1]
    ELSE [consumed |-> 1, ttl |-> Duration]

\* Variants of the comparison that are off by one, either way.
ExceededTooEarly(consumed) == consumed >= Points

ExceededOffByOne(consumed) == consumed > Points + 1

Exceeded(consumed) == consumed > Points

\* A variant without blockDuration: the key keeps the window's expiry.
NoBlock(e) == e

Block(e) ==
    IF BlockDuration > 0 /\ e.consumed <= Points + 1
    THEN [e EXCEPT !.ttl = BlockDuration]
    ELSE e

consume(e) ==
    LET u == Upsert(e)
    IN  IF Exceeded(u.consumed)
        THEN [rejected |-> TRUE, entry |-> Block(u)]
        ELSE [rejected |-> FALSE, entry |-> u]

\* A variant of the catch without the instanceof test.
RateLimitedAsInternal == JsonError(500, "Internal server error")

\* catch: error instanceof RateLimiterRes
RateLimited == JsonError(429, "Too many requests")

\* catch: any other error
InternalError == JsonError(500, "Internal server error")

\* What the awaits of the handler reject with, and what it throws.
RateLimiterRes == [kind |-> "RateLimiterRes", message |-> ""]

StoreError == [kind |-> "Error", message |-> "Socket closed unexpectedly"]

URIError == [kind |-> "URIError", message |-> "URI malformed"]

\* throw new Error(`HTTP Error: ${response.status}`)
HttpError == [kind |-> "Error", message |-> "HTTP Error: 503"]

\* fetch rejects: no answer from upstream.
TransportError == [kind |-> "FetchError", message |-> "connect ECONNREFUSED"]

FetchErrors == {HttpError, TransportError}

\* A variant of the catch that sends the message of the error, as the catch
\* of src/server/src/server.js does.
catchSendingMessage(error) ==
    IF error.kind = "RateLimiterRes" THEN RateLimited
    ELSE JsonError(500, error.message)

\* The catch of the handler.
catch(error) ==
    IF error.kind = "RateLimiterRes" THEN RateLimited ELSE InternalError

(***************************************************************************)
(* The handler between consume and the cache read: the checks of the url   *)
(* parameter.  The result is a response, or the decoded URL to go on with. *)
(***************************************************************************)
\* A variant that does not consult the allow-list.
ValidateWithoutAllowList(q) ==
    IF q = Missing
    THEN [go |-> FALSE, url |-> <<>>, resp |-> JsonError(400, "Missing URL parameter"),
          cause |-> ""]
    ELSE IF ~Decoded[q].ok
    THEN [go |-> FALSE, url |-> <<>>, resp |-> catch(URIError), cause |-> URIError.message]
    ELSE [go |-> TRUE, url |-> Decoded[q].str, resp |-> NoResponse, cause |-> ""]

Validate(q) ==
    IF q = Missing
    THEN [go |-> FALSE, url |-> <<>>, resp |-> JsonError(400, "Missing URL parameter"),
          cause |-> ""]
    ELSE IF ~Decoded[q].ok
    THEN [go |-> FALSE, url |-> <<>>, resp |-> catch(URIError), cause |-> URIError.message]
    ELSE IF ~isValidWhiteHouseUrl(Decoded[q].str)
    THEN [go |-> FALSE, url |-> <<>>, resp |-> JsonError(400, "Invalid URL"), cause |-> ""]
    ELSE [go |-> TRUE, url |-> Decoded[q].str, resp |-> NoResponse, cause |-> ""]

\* The key of the cache read and of the cache write.
CacheKey(url) == url

\* if (cachedResponse)
IsHit(e) == e.ttl > 0

\* The headers object built from upstream's answer.
HeadersOf(u) == [ctype |-> u.ctype, maxAge |-> CACHE_TTL]

\* A variant that stores the value with no time to live.
EntryOfExpired(data, headers) ==
    [data |-> data, ctype |-> headers.ctype, maxAge |-> headers.maxAge, ttl |-> 0]

\* JSON.stringify({ data, headers }) stored with PX: CACHE_TTL
EntryOf(data, headers) ==
    [data |-> data, ctype |-> headers.ctype, maxAge |-> headers.maxAge,
     ttl |-> CACHE_TTL]

\* A variant that sends the cached data without the cached headers.
HitResponseWithoutHeaders(e) ==
    MkResp(200, Utf8Encode(e.data), ContentType("text/html", "utf-8"), 0)

\* res.set(headers); res.send(data) with the parsed entry
HitResponse(e) == MkResp(200, Utf8Encode(e.data), setCharset(e.ctype), e.maxAge)

\* res.set(headers).send(data) after the fetch
FreshResponse(data, headers) ==
    MkResp(200, Utf8Encode(data), setCharset(headers.ctype), headers.maxAge)

\* A variant of the read that renews the expiry of the key it reads (GETEX).
getex(c, k) ==
    [value |-> c[k],
     store |-> [c EXCEPT ![k] = IF @.ttl > 0 THEN [@ EXCEPT !.ttl = CACHE_TTL] ELSE @]]

\* redisClient.get(key): the value of the key; the store stays as it is.
get(c, k) == [value |-> c[k], store |-> c]

\* A variant of the write that keeps a key that exists (SET ... NX).
setnx(c, k, v) == IF c[k].ttl > 0 THEN c ELSE [c EXCEPT ![k] = v]

\* redisClient.set(key, value, { PX }): the key holds the value, whatever it held.
set(c, k, v) == [c EXCEPT ![k] = v]

\* A variant of the expiry that never drops a key.
NeverExpire(e) == e

\* One tick in the life of a cache key: the store drops it when its time is up.
Expire(e) == IF e.ttl <= 1 THEN NoEntry ELSE [e EXCEPT !.ttl = @ - 1]

\* What Express answers when no route matches the method and the path.
NotFound == MkResp(404, <<>>, ContentType("text/html", "utf-8"), 0)

(***************************************************************************)
(* History                                                                 *)
(***************************************************************************)
\* age: ticks since the window's first admission (Duration: no window runs);
\* count: admissions in it; rejAge: ticks since the first rejection after the
\* last admission (-1: none), counted up to BlockDuration.
NoWindow == [age |-> Duration, count |-> 0, rejAge |-> -1]

InWindow(w) == w.age < Duration

\* The window after an admission: a new one when none is running.
Admit(w) ==
    IF InWindow(w)
    THEN [w EXCEPT !.count = @ + 1, !.rejAge = -1]
    ELSE [age |-> 0, count |-> 1, rejAge |-> -1]

\* The window after a rejection: the first of a run of rejections is kept.
Refuse(w) == IF w.rejAge = -1 THEN [w EXCEPT !.rejAge = 0] ELSE w

Older(w) ==
    [age    |-> IF w.age < Duration THEN w.age + 1 ELSE w.age,
     count  |-> IF w.age + 1 < Duration THEN w.count ELSE 0,
     rejAge |-> IF w.rejAge >= 0 /\ w.rejAge < BlockDuration THEN w.rejAge + 1 ELSE w.rejAge]

\* age: ticks since the write (CACHE_TTL: none younger than the TTL).
\* body, ctype, maxAge: the response of the call that wrote; up: what upstream
\* answered to it; over: the write replaced an entry that was still live;
\* hit: a hit was served from the entry; written: the key was written once;
\* renewed: the call that wrote had found the key expired.  hit and written
\* are kept when the entry has expired.
NotStored == [age |-> CACHE_TTL, body |-> <<>>, ctype |-> NoContentType, maxAge |-> 0,
              up |-> NoUpstream, over |-> FALSE, hit |-> FALSE, written |-> FALSE,
              renewed |-> FALSE]

\* up: what upstream answered to the request's own fetch; cause: the message
\* of the error the catch got, when it was not a rejection of the limiter.
Done(r, resp, admitted, hit) ==
    [method |-> "GET", client |-> r.client, query |-> r.query, status |-> resp.status,
     body |-> resp.body, ctype |-> resp.ctype, maxAge |-> resp.maxAge,
     error |-> resp.error, admitted |-> admitted, hit |-> hit, reads |-> r.reads,
     fetches |-> r.fetches, writes |-> r.writes, seen |-> r.seen, up |-> r.up,
     cause |-> ""]

\* The request ends in the catch with an error that is no rejection.
Failed(r, error, admitted) ==
    [Done(r, catch(error), admitted, FALSE) EXCEPT !.cause = error.message]

(***************************************************************************)
(* Feed client (src/src/js/main.js): constants and pure functions          *)
(***************************************************************************)
\* CACHE_TTL of the client (one hour), in ticks of the client's clock.
CLIENT_CACHE_TTL == 2

MAX_RETRIES == 3

\* The delay of the timer before a retry, in milliseconds.
RetryDelay == 2000

\* sanitizeHTML: div.textContent = str; return div.innerHTML.  The
\* serialisation of a text node escapes the ampersand and the angle brackets.
EscapeChar(c) ==
    IF c = "&" THEN <<"&", "a", "m", "p", ";">>
    ELSE IF c = "<" THEN <<"&", "l", "t", ";">>
    ELSE IF c = ">" THEN <<"&", "g", "t", ";">>
    ELSE <<c>>

RECURSIVE sanitizeHTML(_)
sanitizeHTML(str) ==
    IF str = <<>> THEN <<>> ELSE EscapeChar(Head(str)) \o sanitizeHTML(Tail(str))

\* A variant of the comparison that ignores case and accepts a longer text.
IsPresidentialActionLoosely(category) ==
    category \in {"Presidential Actions", "presidential actions",
                  "Presidential Actions Archive"}

\* category.textContent === 'Presidential Actions'
IsPresidentialAction(category) == category = "Presidential Actions"

\* An item element of the feed with its category, title, link, pubDate and
\* description children.
Item(cats, title, link, pubDate, description) ==
    [cats |-> cats, title |-> title, link |-> link, pubDate |-> pubDate,
     description |-> description, missing |-> {}]

\* Whether the map of extractActionsFromXML throws: an item that passed the
\* filter lacks an element, so getElementsByTagName(...)[0] is undefined and
\* reading its textContent is a TypeError.
Throws(xmlDoc) ==
    \E i \in DOMAIN xmlDoc :
        /\ \E c \in DOMAIN xmlDoc[i].cats : IsPresidentialAction(xmlDoc[i].cats[c])
        /\ xmlDoc[i].missing # {}

extractActionsFromXML(xmlDoc) ==
    LET items == SelectSeq(xmlDoc, LAMBDA item :
                     \E i \in DOMAIN item.cats : IsPresidentialAction(item.cats[i]))
    IN  [i \in 1..Len(items) |->
            [title |-> sanitizeHTML(items[i].title),
             link |-> items[i].link,
             pubDate |-> items[i].pubDate,
             description |-> sanitizeHTML(items[i].description)]]

\* new Date(pubDate).toLocaleDateString('en-US', { dateStyle: 'long' })
toLocaleDateString(pubDate) ==
    IF pubDate = <<"Mon, 20 Jan 2025 17:00:00 +0000">> THEN <<"January 20, 2025">>
    ELSE IF pubDate = <<"Tue, 21 Jan 2025 09:30:00 +0000">> THEN <<"January 21, 2025">>
    ELSE <<"Invalid Date">>

\* createActionCard: the texts the template puts into card.innerHTML, the
\* first three as element content, the last as the value of the href attribute.
createActionCard(action) ==
    [date |-> toLocaleDateString(action.pubDate), title |-> action.title,
     summary |-> action.description, href |-> action.link]

\* Five items, two of them with the category; one of the two has a link and
\* a pubDate that hold markup.  A text is a sequence of pieces; a character
\* that markup or JSON treats specially is always a piece of its own.
FeedFive ==
    << Item(<<"Briefings">>, <<"a">>, <<"u", "1">>,
            <<"Mon, 20 Jan 2025 17:00:00 +0000">>, <<"d", "1">>),
       Item(<<"Briefings", "Presidential Actions">>, <<"b", "<", "&">>, <<"u", "2">>,
            <<"Mon, 20 Jan 2025 17:00:00 +0000">>, <<"<", "b", ">">>),
       Item(<<"presidential actions">>, <<"c">>, <<"u", "3">>,
            <<"Tue, 21 Jan 2025 09:30:00 +0000">>, <<"d", "3">>),
       Item(<<"Presidential Actions Archive">>, <<"d">>, <<"u", "4">>,
            <<"Tue, 21 Jan 2025 09:30:00 +0000">>, <<"d", "4">>),
       Item(<<"Presidential Actions">>, <<"e">>, <<"\"", ">", "<", "x", ">">>,
            <<"<", "i", ">", "yesterday", "<", "/", "i", ">">>, <<"d", "5">>) >>

\* No item with the category.
FeedNone ==
    << Item(<<"Briefings">>, <<"a">>, <<"u", "1">>,
            <<"Mon, 20 Jan 2025 17:00:00 +0000">>, <<"d", "1">>) >>

\* One item with the category, in no other feed.
FeedOne ==
    << Item(<<"Presidential Actions">>, <<"f">>, <<"u", "6">>,
            <<"Tue, 21 Jan 2025 09:30:00 +0000">>, <<"d", "6">>) >>

Feeds == {FeedFive, FeedNone, FeedOne}

\* Three items: one without the category that lacks its title, one with the
\* category and all its elements, one with the category and no description.
FeedBroken ==
    << [Item(<<"Briefings">>, <<>>, <<"u", "7">>,
             <<"Mon, 20 Jan 2025 17:00:00 +0000">>, <<"d", "7">>)
           EXCEPT !.missing = {"title"}],
       Item(<<"Presidential Actions">>, <<"h">>, <<"u", "8">>,
            <<"Mon, 20 Jan 2025 17:00:00 +0000">>, <<"d", "8">>),
       [Item(<<"Presidential Actions">>, <<"i">>, <<"u", "9">>,
             <<"Tue, 21 Jan 2025 09:30:00 +0000">>, <<>>)
           EXCEPT !.missing = {"description"}] >>

BrokenFeeds == {FeedOne, FeedBroken}

\* JSON.stringify of a string: quoted, the quote and the backslash escaped.
RECURSIVE EscapeJSON(_)
EscapeJSON(str) ==
    IF str = <<>> THEN <<>>
    ELSE (IF Head(str) \in {"\"", "\\"} THEN <<"\\", Head(str)>> ELSE <<Head(str)>>)
             \o EscapeJSON(Tail(str))

QuoteJSON(str) == <<"\"">> \o EscapeJSON(str) \o <<"\"">>

\* JSON.parse of a quoted string, from position i up to the closing quote.
RECURSIVE UnescapeJSON(_, _)
UnescapeJSON(str, i) ==
    IF i > Len(str) \/ str[i] = "\"" THEN <<>>
    ELSE IF str[i] = "\\" /\ i < Len(str) THEN <<str[i + 1]>> \o UnescapeJSON(str, i + 2)
    ELSE <<str[i]>> \o UnescapeJSON(str, i + 1)

UnquoteJSON(str) == UnescapeJSON(str, 2)

\* JSON.stringify and JSON.parse of a list of objects with string members.
JSONstringify(value) ==
    [json |-> [i \in 1..Len(value) |->
                 [k \in DOMAIN value[i] |-> QuoteJSON(value[i][k])]]]

JSONparse(str) ==
    [i \in 1..Len(str.json) |->
        [k \in DOMAIN str.json[i] |-> UnquoteJSON(str.json[i][k])]]

Digits == <<"0", "1", "2", "3", "4", "5", "6", "7", "8", "9">>

\* Date.now().toString()
RECURSIVE toString(_)
toString(n) ==
    IF n < 10 THEN <<Digits[n + 1]>> ELSE toString(n \div 10) \o <<Digits[(n % 10) + 1]>>

IsDigit(c) == \E i \in DOMAIN Digits : Digits[i] = c

RECURSIVE ParseDigits(_, _, _)
ParseDigits(str, i, acc) ==
    IF i > Len(str) \/ ~IsDigit(str[i]) THEN acc
    ELSE ParseDigits(str, i + 1, acc * 10 + (IndexOf(Digits, str[i]) - 1))

\* parseInt(str, 10): the leading digits; NaN when there is none.
parseInt(str) ==
    IF str = <<>> \/ ~IsDigit(str[1]) THEN [nan |-> TRUE, val |-> 0]
    ELSE [nan |-> FALSE, val |-> ParseDigits(str, 1, 0)]

\* The wait of the debounce of the search input, in milliseconds.
DebounceWait == 300

\* String.prototype.toLowerCase, piece by piece.
toLowerCase(str) ==
    [i \in 1..Len(str) |->
        IF str[i] = "January 20, 2025" THEN "january 20, 2025"
        ELSE IF str[i] = "January 21, 2025" THEN "january 21, 2025"
        ELSE IF str[i] = "Invalid Date" THEN "invalid date"
        ELSE IF str[i] = "Read Full Document" THEN "read full document"
        ELSE ToLower(str[i])]

\* String.prototype.includes
includes(str, searchString) ==
    \E k \in 1..(Len(str) + 1) :
        /\ k + Len(searchString) - 1 <= Len(str)
        /\ SubSeq(str, k, k + Len(searchString) - 1) = searchString

\* The text of markup that sanitizeHTML wrote: the three entities decoded.
RECURSIVE DecodeEntities(_)
DecodeEntities(str) ==
    IF str = <<>> THEN <<>>
    ELSE IF Len(str) >= 5 /\ SubSeq(str, 1, 5) = <<"&", "a", "m", "p", ";">>
         THEN <<"&">> \o DecodeEntities(SubSeq(str, 6, Len(str)))
    ELSE IF Len(str) >= 4 /\ SubSeq(str, 1, 4) = <<"&", "l", "t", ";">>
         THEN <<"<">> \o DecodeEntities(SubSeq(str, 5, Len(str)))
    ELSE IF Len(str) >= 4 /\ SubSeq(str, 1, 4) = <<"&", "g", "t", ";">>
         THEN <<">">> \o DecodeEntities(SubSeq(str, 5, Len(str)))
    ELSE <<Head(str)>> \o DecodeEntities(Tail(str))

\* card.textContent: the date, the title, the summary and the text of the
\* link, in the order of the template.
textContent(card) ==
    card.date \o DecodeEntities(card.title) \o DecodeEntities(card.summary)
        \o <<"Read Full Document">>

\* What localStorage.getItem gives for a key that is not set: null.
NoItem == [present |-> FALSE, value |-> <<>>]

\* What the page shows instead of cards.
FailureMessage == "Failed to load presidential actions. Please try again later."

NoResultsMessage == "No presidential actions found."

StoredItem(value) == [present |-> TRUE, value |-> value]

\* A variant that accepts an entry of exactly the age CACHE_TTL.
isCacheValidInclusive(data, timestamp, t) ==
    /\ data.present
    /\ timestamp.present
    /\ ~parseInt(timestamp.value).nan
    /\ t - parseInt(timestamp.value).val <= CLIENT_CACHE_TTL

\* data && timestamp && Date.now() - parseInt(timestamp, 10) < CACHE_TTL
isCacheValid(data, timestamp, t) ==
    /\ data.present
    /\ timestamp.present
    /\ ~parseInt(timestamp.value).nan
    /\ t - parseInt(timestamp.value).val < CLIENT_CACHE_TTL

(***************************************************************************)
(* Initial state and actions                                               *)
(***************************************************************************)
\* The page before it is opened.
NoView == [open |-> FALSE, cards |-> <<>>, error |-> "", loading |-> FALSE]

\* The page as index.html gives it: no card, no message, the loader shown.
FreshView == [open |-> TRUE, cards |-> <<>>, error |-> "", loading |-> TRUE]

NoLoad ==
    [n |-> 0, outcome |-> "", via |-> "", attempts |-> 0, failures |-> 0, waits |-> 0,
     delay |-> 0, startCount |-> 0, overlapped |-> FALSE, doc |-> <<>>, list |-> <<>>,
     countAfter |-> 0, shown |-> "", cards |-> <<>>, at |-> 0]

NoCheck ==
    [n |-> 0, dataPresent |-> FALSE, timePresent |-> FALSE, age |-> 0, network |-> FALSE,
     list |-> <<>>, cards |-> <<>>]

NotWritten == [at |-> 0, list |-> <<>>]

\* The search input empty, no timer set (timeout undefined).
NoSearch == [value |-> <<>>, timeout |-> 0, timers |-> {}]

NoSearchLog ==
    [inputs |-> 0, burst |-> 0, since |-> 0, runs |-> 0, n |-> 0, typed |-> <<>>, term |-> <<>>,
     visible |-> {}]

NoRequest ==
    [client |-> "", query |-> <<>>, reads |-> 0, fetches |-> 0, writes |-> 0,
     seen |-> NotStored, up |-> NoUpstream]

Init ==
    /\ rl = [c \in Clients |-> NoCounter]
    /\ cache = [k \in Keys |-> NoEntry]
    /\ inflight = {}
    /\ nreq = 0
    /\ last = [Done(NoRequest, NoResponse, FALSE, FALSE) EXCEPT !.method = ""]
    /\ lastConsume = [client |-> "", admitted |-> FALSE, preCount |-> 0,
                      preRejAge |-> -1, preAge |-> Duration, concurrent |-> FALSE]
    /\ window = [c \in Clients |-> NoWindow]
    /\ recent = [c \in Clients |-> <<>>]
    /\ stored = [k \in Keys |-> NotStored]
    /\ storeUp = TRUE
    /\ failedAt = 0
    /\ now = ClockStart
    /\ lsData = NoItem
    /\ lsTime = NoItem
    /\ retryCount = 0
    /\ loads = {}
    /\ view = NoView
    /\ lastLoad = NoLoad
    /\ lastCheck = NoCheck
    /\ written = NotWritten
    /\ nloads = 0
    /\ search = NoSearch
    /\ searchLog = NoSearchLog

FreeSlots == Slots \ {r.slot : r \in inflight}

\* GET /proxy arrives: the handler runs up to await rateLimiter.consume.
Receive(xff, remote, q, limit) ==
    /\ nreq < limit
    /\ FreeSlots # {}
    /\ nreq' = nreq + 1
    /\ inflight' = inflight \cup
         {[slot |-> CHOOSE n \in FreeSlots : \A m \in FreeSlots : n <= m,
           client |-> ClientIP(xff, remote), query |-> q,
           pc |-> "consume", url |-> <<>>, data |-> <<>>, ctype |-> NoContentType,
           reads |-> 0, fetches |-> 0, writes |-> 0, seen |-> NotStored,
           up |-> NoUpstream]}
    /\ UNCHANGED <<rl, cache, last, lastConsume, window, recent, stored,
                   storeUp, failedAt,
                   clientVars, searchVars>>

\* A request to /proxy with another method arrives: the application has no
\* route for it and no middleware that looks at the method.
ReceiveOther(method, xff, remote, q, limit) ==
    /\ nreq < limit
    /\ nreq' = nreq + 1
    /\ last' = [Done([NoRequest EXCEPT !.client = ClientIP(xff, remote), !.query = q],
                     NotFound, FALSE, FALSE) EXCEPT !.method = method]
    /\ UNCHANGED <<rl, cache, inflight, lastConsume, window, recent, stored,
                   storeUp, failedAt,
                   clientVars, searchVars>>

\* A variant of the limiter whose key leaves out the client identifier.
ConsumeSharedCounter(r) ==
    /\ r.pc = "consume"
    /\ storeUp
    /\ LET res == consume(rl[r.client])
           v   == Validate(r.query)
           w   == window[r.client]
       IN  /\ rl' = [c \in Clients |-> res.entry]
           /\ lastConsume' =
                [client |-> r.client, admitted |-> ~res.rejected, preCount |-> w.count,
                 preRejAge |-> w.rejAge, preAge |-> w.age,
                 concurrent |-> \E o \in inflight : o.client = r.client /\ o.slot # r.slot]
           /\ window' = [window EXCEPT ![r.client] =
                            IF res.rejected THEN Refuse(w) ELSE Admit(w)]
           /\ recent' = [recent EXCEPT ![r.client] =
                            IF res.rejected THEN @ ELSE Append(@, 0)]
           /\ IF res.rejected
              THEN /\ last' = Done(r, catch(RateLimiterRes), FALSE, FALSE)
                   /\ inflight' = inflight \ {r}
              ELSE IF ~v.go
              THEN /\ last' = [Done(r, v.resp, TRUE, FALSE) EXCEPT !.cause = v.cause]
                   /\ inflight' = inflight \ {r}
              ELSE /\ last' = last
                   /\ inflight' = (inflight \ {r}) \cup
                        {[r EXCEPT !.pc = "cacheGet", !.url = v.url, !.reads = @ + 1]}
    /\ UNCHANGED <<cache, nreq, stored, storeUp, failedAt,
                   clientVars, searchVars>>

\* A variant of the handler that validates the URL before it asks the limiter.
ConsumeAfterValidation(r) ==
    /\ r.pc = "consume"
    /\ storeUp
    /\ LET res == IF Validate(r.query).go THEN consume(rl[r.client])
                  ELSE [rejected |-> FALSE, entry |-> rl[r.client]]
           v   == Validate(r.query)
           w   == window[r.client]
       IN  /\ rl' = [rl EXCEPT ![r.client] = res.entry]
           /\ lastConsume' =
                [client |-> r.client, admitted |-> ~res.rejected, preCount |-> w.count,
                 preRejAge |-> w.rejAge, preAge |-> w.age,
                 concurrent |-> \E o \in inflight : o.client = r.client /\ o.slot # r.slot]
           /\ window' = [window EXCEPT ![r.client] =
                            IF res.rejected THEN Refuse(w) ELSE Admit(w)]
           /\ recent' = [recent EXCEPT ![r.client] =
                            IF res.rejected THEN @ ELSE Append(@, 0)]
           /\ IF res.rejected
              THEN /\ last' = Done(r, catch(RateLimiterRes), FALSE, FALSE)
                   /\ inflight' = inflight \ {r}
              ELSE IF ~v.go
              THEN /\ last' = [Done(r, v.resp, TRUE, FALSE) EXCEPT !.cause = v.cause]
                   /\ inflight' = inflight \ {r}
              ELSE /\ last' = last
                   /\ inflight' = (inflight \ {r}) \cup
                        {[r EXCEPT !.pc = "cacheGet", !.url = v.url, !.reads = @ + 1]}
    /\ UNCHANGED <<cache, nreq, stored, storeUp, failedAt,
                   clientVars, searchVars>>

\* consume settles; on admission the handler validates the url parameter and
\* either answers or issues the cache read.
Consume(r) ==
    /\ r.pc = "consume"
    /\ storeUp
    /\ LET res == consume(rl[r.client])
           v   == Validate(r.query)
           w   == window[r.client]
       IN  /\ rl' = [rl EXCEPT ![r.client] = res.entry]
           /\ lastConsume' =
                [client |-> r.client, admitted |-> ~res.rejected, preCount |-> w.count,
                 preRejAge |-> w.rejAge, preAge |-> w.age,
                 concurrent |-> \E o \in inflight : o.client = r.client /\ o.slot # r.slot]
           /\ window' = [window EXCEPT ![r.client] =
                            IF res.rejected THEN Refuse(w) ELSE Admit(w)]
           /\ recent' = [recent EXCEPT ![r.client] =
                            IF res.rejected THEN @ ELSE Append(@, 0)]
           /\ IF res.rejected
              THEN /\ last' = Done(r, catch(RateLimiterRes), FALSE, FALSE)
                   /\ inflight' = inflight \ {r}
              ELSE IF ~v.go
              THEN /\ last' = [Done(r, v.resp, TRUE, FALSE) EXCEPT !.cause = v.cause]
                   /\ inflight' = inflight \ {r}
              ELSE /\ last' = last
                   /\ inflight' = (inflight \ {r}) \cup
                        {[r EXCEPT !.pc = "cacheGet", !.url = v.url, !.reads = @ + 1]}
    /\ UNCHANGED <<cache, nreq, stored, storeUp, failedAt,
                   clientVars, searchVars>>

\* A variant in which the limiter lets the request pass when the store fails.
ConsumeFailOpen(r) ==
    /\ r.pc = "consume"
    /\ ~storeUp
    /\ failedAt' = nreq
    /\ inflight' = (inflight \ {r}) \cup
         {[r EXCEPT !.pc = "cacheGet", !.url = Decoded[r.query].str, !.reads = @ + 1]}
    /\ UNCHANGED <<rl, cache, nreq, last, lastConsume, window, recent, stored,
                   storeUp,
                   clientVars, searchVars>>

\* consume rejects because the store does not answer: the limiter has no
\* insurance limiter, the error is no RateLimiterRes, the catch answers.
ConsumeFail(r) ==
    /\ r.pc = "consume"
    /\ ~storeUp
    /\ last' = Failed(r, StoreError, FALSE)
    /\ inflight' = inflight \ {r}
    /\ failedAt' = nreq
    /\ UNCHANGED <<rl, cache, nreq, lastConsume, window, recent, stored,
                   storeUp,
                   clientVars, searchVars>>

\* redisClient.get(decodedUrl) settles: a hit is answered from the entry, a
\* miss issues the fetch.
CacheGet(r) ==
    /\ r.pc = "cacheGet"
    /\ storeUp
    /\ LET res == get(cache, CacheKey(r.url))
           e == res.value
           rr == [r EXCEPT !.seen = stored[r.url]]
       IN  /\ cache' = res.store
           /\ IF IsHit(e)
              THEN /\ last' = Done(rr, HitResponse(e), TRUE, TRUE)
                   /\ inflight' = inflight \ {r}
                   /\ stored' = [stored EXCEPT ![r.url].hit = TRUE]
              ELSE /\ last' = last
                   /\ inflight' = (inflight \ {r}) \cup
                        {[rr EXCEPT !.pc = "fetch", !.fetches = @ + 1]}
                   /\ stored' = stored
    /\ UNCHANGED <<rl, nreq, lastConsume, window, recent, storeUp, failedAt,
                   clientVars, searchVars>>

\* redisClient.get rejects because the store does not answer.
CacheGetFail(r) ==
    /\ r.pc = "cacheGet"
    /\ ~storeUp
    /\ last' = Failed(r, StoreError, TRUE)
    /\ inflight' = inflight \ {r}
    /\ UNCHANGED <<rl, cache, nreq, lastConsume, window, recent, stored,
                   storeUp, failedAt,
                   clientVars, searchVars>>

\* fetch and response.text() settle with a 2xx answer: the cache write is issued.
FetchOk(r, u) ==
    /\ r.pc = "fetch"
    /\ inflight' = (inflight \ {r}) \cup
         {[r EXCEPT !.pc = "cacheSet", !.data = text(u.body),
                    !.ctype = HeadersOf(u).ctype, !.writes = @ + 1, !.up = u]}
    /\ UNCHANGED <<rl, cache, nreq, last, lastConsume, window, recent, stored,
                   storeUp, failedAt,
                   clientVars, searchVars>>

\* A variant that caches what a failed fetch has left.
FetchFailCaching(r, e) ==
    /\ r.pc = "fetch"
    /\ last' = Failed(r, e, TRUE)
    /\ inflight' = inflight \ {r}
    /\ cache' = set(cache, CacheKey(r.url), EntryOf(r.data, [ctype |-> r.ctype, maxAge |-> CACHE_TTL]))
    /\ UNCHANGED <<rl, nreq, lastConsume, window, recent, stored,
                   storeUp, failedAt,
                   clientVars, searchVars>>

\* fetch rejects, or answers with a status that is not ok: the catch answers 500.
FetchFail(r, e) ==
    /\ r.pc = "fetch"
    /\ last' = Failed(r, e, TRUE)
    /\ inflight' = inflight \ {r}
    /\ UNCHANGED <<rl, cache, nreq, lastConsume, window, recent, stored,
                   storeUp, failedAt,
                   clientVars, searchVars>>

\* redisClient.set settles: the entry is stored and the fresh answer is sent.
CacheSet(r) ==
    /\ r.pc = "cacheSet"
    /\ storeUp
    /\ LET headers == [ctype |-> r.ctype, maxAge |-> CACHE_TTL]
           resp == FreshResponse(r.data, headers)
       IN  /\ cache' = set(cache, CacheKey(r.url), EntryOf(r.data, headers))
           /\ last' = Done(r, resp, TRUE, FALSE)
           /\ stored' = [stored EXCEPT ![r.url] =
                            [age |-> 0, body |-> resp.body, ctype |-> resp.ctype,
                             maxAge |-> resp.maxAge, up |-> r.up,
                             over |-> IsHit(cache[CacheKey(r.url)]), hit |-> FALSE,
                             written |-> TRUE, renewed |-> r.seen.written]]
    /\ inflight' = inflight \ {r}
    /\ UNCHANGED <<rl, nreq, lastConsume, window, recent, storeUp, failedAt,
                   clientVars, searchVars>>

\* redisClient.set rejects because the store does not answer: the catch
\* answers, although upstream has answered.
CacheSetFail(r) ==
    /\ r.pc = "cacheSet"
    /\ ~storeUp
    /\ last' = Failed(r, StoreError, TRUE)
    /\ inflight' = inflight \ {r}
    /\ UNCHANGED <<rl, cache, nreq, lastConsume, window, recent, stored,
                   storeUp, failedAt,
                   clientVars, searchVars>>

\* One tick passes: every key has one tick less to live, and the store drops
\* the keys that have none left.
Tick ==
    /\ rl' = [c \in Clients |-> IF rl[c].ttl <= 1 THEN NoCounter
                                 ELSE [rl[c] EXCEPT !.ttl = @ - 1]]
    /\ cache' = [k \in Keys |-> Expire(cache[k])]
    /\ window' = [c \in Clients |-> Older(window[c])]
    /\ recent' = [c \in Clients |->
                    LET aged == [i \in 1..Len(recent[c]) |-> recent[c][i] + 1]
                    IN  SelectSeq(aged, LAMBDA a : a < Duration)]
    /\ stored' = [k \in Keys |-> IF stored[k].age + 1 >= CACHE_TTL
                                  THEN [NotStored EXCEPT !.hit = stored[k].hit,
                                                         !.written = stored[k].written]
                                  ELSE [stored[k] EXCEPT !.age = @ + 1]]
    /\ UNCHANGED <<inflight, nreq, last, lastConsume, storeUp, failedAt,
                   clientVars, searchVars>>

\* The connection to the store is lost; the keys live on in the store.
StoreLost ==
    /\ storeUp
    /\ storeUp' = FALSE
    /\ UNCHANGED <<rl, cache, inflight, nreq, last, lastConsume, window, recent,
                   stored, failedAt,
                   clientVars, searchVars>>

\* The client has reconnected.
StoreBack ==
    /\ ~storeUp
    /\ storeUp' = TRUE
    /\ UNCHANGED <<rl, cache, inflight, nreq, last, lastConsume, window, recent,
                   stored, failedAt,
                   clientVars, searchVars>>

\* The steps of the requests in flight, with upstream answering from ups or
\* failing with one of errs.
Handle(ups, errs) ==
    \/ \E r \in inflight : Consume(r)
    \/ \E r \in inflight : CacheGet(r)
    \/ \E r \in inflight, u \in ups : FetchOk(r, u)
    \/ \E r \in inflight, e \in errs : FetchFail(r, e)
    \/ \E r \in inflight : CacheSet(r)

\* The steps of the requests in flight whose await on the store rejects.
HandleStoreFailure ==
    \/ \E r \in inflight : ConsumeFail(r)
    \/ \E r \in inflight : CacheGetFail(r)
    \/ \E r \in inflight : CacheSetFail(r)

\* Every url parameter, from one client address, with upstream answering in
\* UTF-8 or with an error status.
WellFormedUpstream == {Utf8FeedV1, Utf8FeedV2}

Next ==
    \/ \E a \in RemoteAddress, q \in Queries : Receive(NoHeader, a, q, MaxReq)
    \/ Handle(WellFormedUpstream, {HttpError})
    \/ Tick

Spec == Init /\ [][Next]_vars

\* Longer runs of requests from every client, for one allowed and one
\* disallowed url parameter.
AdmissionQueries == {FeedUrl, EvilUrl}

AdmissionUpstream == {Utf8FeedV1}

NextAdmission ==
    \/ \E x \in ForwardedFor, a \in RemoteAddress, q \in AdmissionQueries :
          Receive(x, a, q, MaxAdmissionReq)
    \/ Handle(AdmissionUpstream, {HttpError})
    \/ Tick

SpecAdmission == Init /\ [][NextAdmission]_vars

\* Requests of two client identifiers for one URL.
NextPerClient ==
    \/ \E x \in ForwardedFor, a \in RemoteAddress : Receive(x, a, FeedUrl, MaxAdmissionReq)
    \/ Handle(AdmissionUpstream, {HttpError})
    \/ Tick

SpecPerClient == Init /\ [][NextPerClient]_vars

\* Requests of one client that end in every way: no URL, a URL that is not
\* allowed, a hit, a fetch.
CountingQueries == {Missing, EvilUrl, FeedUrl}

NextCounting ==
    \/ \E a \in RemoteAddress, q \in CountingQueries : Receive(NoHeader, a, q, MaxAdmissionReq)
    \/ Handle(AdmissionUpstream, {HttpError})
    \/ Tick

SpecCounting == Init /\ [][NextCounting]_vars

\* Longer runs of requests for one cache key, given plain and percent-encoded,
\* with every answer of upstream.
CacheQueries == {FeedUrl, EncodedFeedUrl}

NextCache ==
    \/ \E a \in RemoteAddress, q \in CacheQueries : Receive(NoHeader, a, q, MaxCacheReq)
    \/ Handle(Upstream, FetchErrors)
    \/ Tick

SpecCache == Init /\ [][NextCache]_vars

\* Requests of every method while the connection to the store comes and
\* goes, with upstream answering or failing.
FailureQueries == {FeedUrl, MalformedUrl}

OtherMethods == {"POST", "DELETE"}

NextFailure ==
    \/ \E a \in RemoteAddress, q \in FailureQueries : Receive(NoHeader, a, q, MaxFailureReq)
    \/ \E m \in OtherMethods, a \in RemoteAddress :
          ReceiveOther(m, NoHeader, a, FeedUrl, MaxFailureReq)
    \/ Handle(WellFormedUpstream, FetchErrors)
    \/ HandleStoreFailure
    \/ StoreLost
    \/ StoreBack
    \/ Tick

SpecFailure == Init /\ [][NextFailure]_vars

\* Requests for the feed with an upstream that answers, refuses the
\* connection, or stays silent.  The steps of the handler that wait on the
\* store are taken when they can be; nothing makes upstream answer, and the
\* fetch of the handler has no timeout and no abort signal.
NextLive ==
    \/ \E a \in RemoteAddress : Receive(NoHeader, a, FeedUrl, MaxLiveReq)
    \/ Handle({Utf8FeedV1}, {TransportError})
    \/ Tick

StoreSteps == \E r \in inflight : Consume(r) \/ CacheGet(r) \/ CacheSet(r)

SpecLive == Init /\ [][NextLive]_vars /\ WF_vars(StoreSteps) /\ WF_vars(Tick)

(***************************************************************************)
(* The client: main.js                                                     *)
(***************************************************************************)
LoadSlots == {1, 2}

\* In the cache specification a refresh waits for the run in progress.
OneLoadSlot == {1}

FreeLoadSlots(slots) == slots \ {l.slot : l \in loads}

\* A run of fetchPresidentialActions at its first call of fetch.
NewLoad(slot, via, count, overlapped, data, time) ==
    [slot |-> slot, pc |-> "fetch", via |-> via, attempts |-> 1, failures |-> 0,
     waits |-> 0, startCount |-> count, overlapped |-> overlapped, doc |-> <<>>,
     before |-> [data |-> data, time |-> time]]

\* renderActions without the message for an empty list.
renderActionsSilently(actions, v) ==
    [v EXCEPT !.cards = [i \in 1..Len(actions) |-> createActionCard(actions[i])]]

\* renderActions: the container is emptied; an empty list shows the message,
\* any other list its cards.  The error container is not emptied.
renderActions(actions, v) ==
    IF Len(actions) = 0
    THEN [v EXCEPT !.cards = <<>>, !.error = NoResultsMessage]
    ELSE [v EXCEPT !.cards = [i \in 1..Len(actions) |-> createActionCard(actions[i])]]

\* handleError, then hideLoading of the finally block.
handleError(v) == [v EXCEPT !.error = FailureMessage, !.loading = FALSE]

\* The history record of a run that ended.
Ended(l, outcome, list, count, v) ==
    [n |-> lastLoad.n + 1, outcome |-> outcome, via |-> l.via, attempts |-> l.attempts,
     failures |-> l.failures, waits |-> l.waits, delay |-> l.waits * RetryDelay,
     startCount |-> l.startCount, overlapped |-> l.overlapped, doc |-> l.doc,
     list |-> list, countAfter |-> count,
     shown |-> v.error, cards |-> v.cards, at |-> now]

\* DOMContentLoaded: the module is evaluated (retryCount = 0), whatever the
\* page before was doing is gone, and initializeApp runs checkCache.
Open ==
    /\ nloads < MaxLoads
    /\ nloads' = nloads + 1
    /\ retryCount' = 0
    /\ IF isCacheValid(lsData, lsTime, now)
       THEN /\ view' = [renderActions(JSONparse(lsData.value), FreshView)
                           EXCEPT !.loading = FALSE]
            /\ loads' = {}
       ELSE /\ view' = FreshView
            /\ loads' = {NewLoad(1, "open", 0, FALSE, lsData, lsTime)}
    /\ lastCheck' = [n |-> lastCheck.n + 1,
                     dataPresent |-> lsData.present, timePresent |-> lsTime.present,
                     age |-> now - written.at, network |-> loads' # {},
                     list |-> written.list, cards |-> view'.cards]
    /\ UNCHANGED <<now, lsData, lsTime, lastLoad, written, serverVars, searchVars>>

\* A variant of refreshData that leaves the timestamp entry in place.
RefreshKeepingTimestamp(slots) ==
    /\ view.open
    /\ nloads < MaxLoads
    /\ FreeLoadSlots(slots) # {}
    /\ nloads' = nloads + 1
    /\ lsData' = NoItem
    /\ view' = [view EXCEPT !.cards = <<>>, !.error = "", !.loading = TRUE]
    /\ LET slot == CHOOSE f \in FreeLoadSlots(slots) : \A g \in FreeLoadSlots(slots) : f <= g
       IN  loads' = {[l EXCEPT !.overlapped = TRUE] : l \in loads}
                        \cup {NewLoad(slot, "refresh", retryCount, loads # {}, NoItem, lsTime)}
    /\ UNCHANGED <<now, lsTime, retryCount, lastLoad, lastCheck, written, serverVars, searchVars>>

\* refreshData, from the refresh button or the retry button of a message:
\* both entries removed, both containers emptied, fetchPresidentialActions
\* started (showLoading and the first call of fetch).
Refresh(slots) ==
    /\ view.open
    /\ nloads < MaxLoads
    /\ FreeLoadSlots(slots) # {}
    /\ nloads' = nloads + 1
    /\ lsData' = NoItem
    /\ lsTime' = NoItem
    /\ view' = [view EXCEPT !.cards = <<>>, !.error = "", !.loading = TRUE]
    /\ LET slot == CHOOSE f \in FreeLoadSlots(slots) : \A g \in FreeLoadSlots(slots) : f <= g
       IN  loads' = {[l EXCEPT !.overlapped = TRUE] : l \in loads}
                        \cup {NewLoad(slot, "refresh", retryCount, loads # {}, NoItem, NoItem)}
    /\ UNCHANGED <<now, retryCount, lastLoad, lastCheck, written, serverVars, searchVars>>

\* A variant of the catch that compares with <=.
FetchFailedInclusive(l) ==
    /\ l.pc = "fetch"
    /\ LET m == [l EXCEPT !.failures = l.failures + 1]
       IN  IF retryCount <= MAX_RETRIES
           THEN /\ retryCount' = retryCount + 1
                /\ loads' = (loads \ {l}) \cup {[m EXCEPT !.pc = "wait"]}
                /\ UNCHANGED <<view, lastLoad>>
           ELSE /\ view' = handleError(view)
                /\ loads' = loads \ {l}
                /\ lastLoad' = Ended(m, "error", <<>>, retryCount, view')
                /\ UNCHANGED retryCount
    /\ UNCHANGED <<now, lsData, lsTime, lastCheck, written, nloads, serverVars, searchVars>>

\* fetch rejects or the response is not ok: the catch of fetchWithRetry.
\* With budget left the counter goes up and the timer is set; without, the
\* error reaches the catch and the finally of fetchPresidentialActions.
FetchFailed(l) ==
    /\ l.pc = "fetch"
    /\ LET m == [l EXCEPT !.failures = l.failures + 1]
       IN  IF retryCount < MAX_RETRIES
           THEN /\ retryCount' = retryCount + 1
                /\ loads' = (loads \ {l}) \cup {[m EXCEPT !.pc = "wait"]}
                /\ UNCHANGED <<view, lastLoad>>
           ELSE /\ view' = handleError(view)
                /\ loads' = loads \ {l}
                /\ lastLoad' = Ended(m, "error", <<>>, retryCount, view')
                /\ UNCHANGED retryCount
    /\ UNCHANGED <<now, lsData, lsTime, lastCheck, written, nloads, serverVars, searchVars>>

\* The timer of 2000 ms fires: fetchWithRetry calls itself.
TimerFired(l) ==
    /\ l.pc = "wait"
    /\ loads' = (loads \ {l}) \cup
                    {[l EXCEPT !.pc = "fetch", !.waits = l.waits + 1,
                               !.attempts = l.attempts + 1]}
    /\ UNCHANGED <<now, lsData, lsTime, retryCount, view, lastLoad, lastCheck, written,
                   nloads, serverVars, searchVars>>

\* fetch resolves with an ok response: fetchWithRetry returns it and
\* parseXMLResponse awaits its text.
FetchSucceeded(l, feed) ==
    /\ l.pc = "fetch"
    /\ loads' = (loads \ {l}) \cup {[l EXCEPT !.pc = "text", !.doc = feed]}
    /\ UNCHANGED <<now, lsData, lsTime, retryCount, view, lastLoad, lastCheck, written,
                   nloads, serverVars, searchVars>>

\* A variant of the success path that leaves the counter as it is.
TextReadKeepingCount(l) ==
    /\ l.pc = "text"
    /\ ~Throws(l.doc)
    /\ LET data == extractActionsFromXML(l.doc)
       IN  /\ lsData' = StoredItem(JSONstringify(data))
           /\ lsTime' = StoredItem(toString(now))
           /\ written' = [at |-> now, list |-> data]
           /\ view' = [renderActions(data, view) EXCEPT !.loading = FALSE]
           /\ UNCHANGED retryCount
           /\ loads' = loads \ {l}
           /\ lastLoad' = Ended(l, "success", data, retryCount', view')
    /\ UNCHANGED <<now, lastCheck, nloads, serverVars, searchVars>>

\* The text arrives: extractActionsFromXML, cacheData, renderActions,
\* retryCount = 0, hideLoading.
TextRead(l) ==
    /\ l.pc = "text"
    /\ ~Throws(l.doc)
    /\ LET data == extractActionsFromXML(l.doc)
       IN  /\ lsData' = StoredItem(JSONstringify(data))
           /\ lsTime' = StoredItem(toString(now))
           /\ written' = [at |-> now, list |-> data]
           /\ view' = [renderActions(data, view) EXCEPT !.loading = FALSE]
           /\ retryCount' = 0
           /\ loads' = loads \ {l}
           /\ lastLoad' = Ended(l, "success", data, retryCount', view')
    /\ UNCHANGED <<now, lastCheck, nloads, serverVars, searchVars>>

\* response.text() rejects (the connection breaks within the body): the
\* catch and the finally of fetchPresidentialActions, no retry.
TextFailed(l) ==
    /\ l.pc = "text"
    /\ view' = handleError(view)
    /\ loads' = loads \ {l}
    /\ lastLoad' = Ended([l EXCEPT !.doc = <<>>], "body", <<>>, retryCount, view')
    /\ UNCHANGED <<now, lsData, lsTime, retryCount, lastCheck, written, nloads,
                   serverVars, searchVars>>

\* A variant of the failure path that stores what the filter kept before
\* the map threw.
ExtractThrewCaching(l) ==
    /\ l.pc = "text"
    /\ Throws(l.doc)
    /\ lsData' = StoredItem(JSONstringify(<<>>))
    /\ lsTime' = StoredItem(toString(now))
    /\ view' = handleError(view)
    /\ loads' = loads \ {l}
    /\ lastLoad' = Ended(l, "extract", <<>>, retryCount, view')
    /\ UNCHANGED <<now, retryCount, lastCheck, written, nloads, serverVars, searchVars>>

\* The text arrives and extractActionsFromXML throws: the catch and the
\* finally of fetchPresidentialActions; cacheData is not reached.
ExtractThrew(l) ==
    /\ l.pc = "text"
    /\ Throws(l.doc)
    /\ view' = handleError(view)
    /\ loads' = loads \ {l}
    /\ lastLoad' = Ended(l, "extract", <<>>, retryCount, view')
    /\ UNCHANGED <<now, lsData, lsTime, retryCount, lastCheck, written, nloads,
                   serverVars, searchVars>>

\* Date.now() advances.
ClientTick ==
    /\ now < ClockStart + ClockSpan
    /\ now' = now + 1
    /\ UNCHANGED <<lsData, lsTime, retryCount, loads, view, lastLoad, lastCheck, written,
                   nloads, serverVars, searchVars>>

NextClient ==
    \/ Open
    \/ Refresh(OneLoadSlot)
    \/ \E l \in loads : FetchFailed(l)
    \/ \E l \in loads : TimerFired(l)
    \/ \E l \in loads, feed \in Feeds : FetchSucceeded(l, feed)
    \/ \E l \in loads : TextRead(l)
    \/ \E l \in loads : TextFailed(l)
    \/ ClientTick

SpecClient == Init /\ [][NextClient]_vars

\* The retries of the client: runs that overlap, one feed, the clock at rest.
NextRetry ==
    \/ Open
    \/ Refresh(LoadSlots)
    \/ \E l \in loads : FetchFailed(l)
    \/ \E l \in loads : TimerFired(l)
    \/ \E l \in loads : FetchSucceeded(l, FeedOne)
    \/ \E l \in loads : TextRead(l)
    \/ \E l \in loads : TextFailed(l)

SpecRetry == Init /\ [][NextRetry]_vars

\* The next step of the run in a slot: its timer fires, or the promise it
\* awaits (fetch, response.text()) settles.
LoadStep(s) ==
    \E l \in loads :
        /\ l.slot = s
        /\ \/ TimerFired(l)
           \/ FetchFailed(l)
           \/ FetchSucceeded(l, FeedOne)
           \/ TextRead(l)
           \/ TextFailed(l)

\* The event loop runs every timer that is due and every continuation of a
\* promise that has settled, and the browser ends every request.
SpecRetryLive == Init /\ [][NextRetry]_vars /\ \A s \in LoadSlots : WF_vars(LoadStep(s))

(***************************************************************************)
(* The client: the debounced search                                        *)
(***************************************************************************)
\* What the user types into the search field.
Typed == {<<>>, <<"B">>, <<"<", "b">>, <<"z">>}

\* A debounce that forgets to cancel the timer it set before.
clearTimeoutIgnored(timers, id) == timers

\* clearTimeout(timeout): the timer of this id, if it is still set, is gone.
clearTimeout(timers, id) == {t \in timers : t.id # id}

\* The input event: the function that debounce returned cancels the timer of
\* the event before and sets one of DebounceWait ms for handleSearch.
Input(value) ==
    /\ view.open
    /\ searchLog.inputs < MaxInputs
    /\ LET kept == clearTimeout(search.timers, search.timeout)
           id == CHOOSE i \in 1..(MaxInputs + 1) :
                     /\ i \notin {t.id : t \in kept}
                     /\ \A j \in 1..(i - 1) : j \in {t.id : t \in kept}
       IN  search' = [value |-> value, timeout |-> id,
                      timers |-> kept \cup {[id |-> id, left |-> DebounceWait]}]
    /\ searchLog' = [searchLog EXCEPT
                         !.inputs = searchLog.inputs + 1,
                         !.burst = IF search.timers # {} /\ searchLog.since < DebounceWait
                                   THEN searchLog.burst + 1 ELSE 1,
                         !.since = 0, !.runs = 0, !.typed = value]
    /\ UNCHANGED <<serverVars, clientVars>>

\* A timer is due: handleSearch reads the value of the field and shows the
\* cards whose text holds it, whatever the case, and hides the others.
SearchTimerFired(t) ==
    /\ t \in search.timers
    /\ t.left = 0
    /\ search' = [search EXCEPT !.timers = search.timers \ {t}]
    /\ LET searchTerm == toLowerCase(search.value)
       IN  searchLog' =
               [searchLog EXCEPT
                   !.runs = searchLog.runs + 1,
                   !.n = searchLog.n + 1,
                   !.term = searchTerm,
                   !.visible = {i \in DOMAIN view.cards :
                                   includes(toLowerCase(textContent(view.cards[i])),
                                            searchTerm)}]
    /\ UNCHANGED <<serverVars, clientVars>>

\* Time passes; a timer that is due runs before time goes on.
SearchTick ==
    /\ search.timers # {}
    /\ \A t \in search.timers : t.left > 0
    /\ LET step == DebounceWait \div TicksPerWait
       IN  /\ search' = [search EXCEPT !.timers =
                            {[t EXCEPT !.left = IF t.left > step THEN t.left - step ELSE 0] :
                                t \in search.timers}]
           /\ searchLog' = [searchLog EXCEPT !.since = searchLog.since + step]
    /\ UNCHANGED <<serverVars, clientVars>>

\* The search on a page that loads its list once.
NextSearch ==
    \/ Open
    \/ \E l \in loads : FetchSucceeded(l, FeedFive)
    \/ \E l \in loads : TextRead(l)
    \/ \E value \in Typed : Input(value)
    \/ \E t \in search.timers : SearchTimerFired(t)
    \/ SearchTick

SpecSearch == Init /\ [][NextSearch]_vars

\* Loads that fail in every way, also on a feed with an item that lacks an
\* element, while another load or a refresh may overlap; the clock at rest.
NextBroken ==
    \/ Open
    \/ Refresh(LoadSlots)
    \/ \E l \in loads : FetchFailed(l)
    \/ \E l \in loads : TimerFired(l)
    \/ \E l \in loads, feed \in BrokenFeeds : FetchSucceeded(l, feed)
    \/ \E l \in loads : TextRead(l)
    \/ \E l \in loads : TextFailed(l)
    \/ \E l \in loads : ExtractThrew(l)

SpecBroken == Init /\ [][NextBroken]_vars


(***************************************************************************)
(* Admission control                                                       *)
(***************************************************************************)
\* The admissions of client c that fall into its running window.
InWindowAdmissions(c) ==
    Cardinality({i \in DOMAIN recent[c] : recent[c][i] <= window[c].age})

\* C1: for every client, while fewer than Points requests have been admitted
\* in its window and none was rejected since, a request is admitted; after
\* exactly Points admissions in one window the next request in that window is
\* rejected; and once BlockDuration has elapsed after that rejection, a
\* request is admitted again.
C1_RejectAfterPointsThenAdmitAfterBlock ==
    /\ (lastConsume.client # "" /\ lastConsume.preCount < Points
                                 /\ lastConsume.preRejAge = -1)
          => lastConsume.admitted
    /\ (lastConsume.preCount = Points /\ lastConsume.preAge < Duration)
          => ~lastConsume.admitted
    /\ lastConsume.preRejAge >= BlockDuration => lastConsume.admitted

C1_Witness ==
    /\ lastConsume.preRejAge >= BlockDuration
    /\ lastConsume.admitted
    /\ last.status = 429
    /\ last.client = lastConsume.client

\* C2: once a client has exceeded Points, each of its requests is rejected
\* until BlockDuration has passed since the first rejection, also after the
\* window of Duration ticks has ended.
C2_BlockedUntilBlockDurationElapsed ==
    (lastConsume.preRejAge >= 0 /\ lastConsume.preRejAge < BlockDuration)
       => ~lastConsume.admitted

C2_Witness ==
    /\ lastConsume.preRejAge >= Duration
    /\ lastConsume.preRejAge < BlockDuration
    /\ lastConsume.preAge >= Duration
    /\ ~lastConsume.admitted

\* C3 as stated: in every state, the requests admitted from one client within
\* any rolling interval of Duration ticks never exceed Points.
C3_RollingIntervalBound ==
    \A c \in Clients : Len(recent[c]) <= Points

\* C3 as amended: in every state, the requests admitted from one client within
\* one fixed window (Duration ticks from the client's first admission after
\* its previous window or block ended) never exceed Points.
C3_FixedWindowBound ==
    \A c \in Clients : InWindow(window[c]) => InWindowAdmissions(c) <= Points

C3_Witness ==
    \E c \in Clients :
        /\ InWindow(window[c])
        /\ InWindowAdmissions(c) = Points
        /\ window[c].rejAge >= 0

\* C4: under every interleaving of concurrent requests of one client, no
\* more than Points of them are admitted in one window: a request that
\* consumes while another request of its client is in flight is admitted only
\* when fewer than Points were admitted before it.
C4_AtomicIncrementAndCheck ==
    /\ \A c \in Clients : window[c].count <= Points
    /\ (lastConsume.concurrent /\ lastConsume.admitted /\ lastConsume.preAge < Duration)
          => lastConsume.preCount < Points

C4_Witness ==
    /\ lastConsume.concurrent
    /\ ~lastConsume.admitted
    /\ lastConsume.preCount = Points
    /\ \E r \in inflight : r.client = lastConsume.client /\ r.pc # "consume"
    /\ \E r \in inflight : r.client = lastConsume.client /\ r.pc = "consume"

RECURSIVE Segments(_, _, _)
Segments(path, i, seg) ==
    IF i > Len(path) THEN <<seg>>
    ELSE IF path[i] = "/" THEN <<seg>> \o Segments(path, i + 1, <<>>)
    ELSE Segments(path, i + 1, Append(seg, path[i]))

IsDotDot(seg) ==
    \/ seg = <<".", ".">>
    \/ decodeURIComponent(seg) = [ok |-> TRUE, str |-> <<".", ".">>]

\* Whether walking the segments from position i at the given depth (1: inside
\* the first segment) climbs above the first segment.
RECURSIVE Climbs(_, _, _)
Climbs(segs, i, depth) ==
    IF i > Len(segs) THEN FALSE
    ELSE IF IsDotDot(segs[i]) THEN depth = 1 \/ Climbs(segs, i + 1, depth - 1)
    ELSE IF segs[i] = <<>> \/ segs[i] = <<".">> THEN Climbs(segs, i + 1, depth)
    ELSE Climbs(segs, i + 1, depth + 1)

\* A URL of the upstream origin whose path leaves its first segment.
LeavesPrefix(url) ==
    /\ StartsWithCI(url, Origin)
    /\ Climbs(Segments(SubSeq(url, Len(Origin) + 1, Len(url)), 1, <<>>), 2, 1)

\* A string that still holds a percent-encoded character.
HasEncodedLayer(url) ==
    \E i \in 1..Len(url) :
        /\ url[i] = "%"
        /\ i + 2 <= Len(url)
        /\ IsHex(url[i + 1]) /\ IsHex(url[i + 2])

\* The url parameters the allow-list refuses.
Disallowed(q) == Decoded[q].ok /\ q \notin AllowedQueries

\* The url parameters that are missing or malformed.
Malformed(q) ==
    \/ q = Missing
    \/ ~Decoded[q].ok
    \/ ~(\E i \in 1..(Len(Decoded[q].str) - 2) :
            SubSeq(Decoded[q].str, i, i + 2) = <<":", "/", "/">>)

\* The requests past the URL validation: those the allow-list has accepted.
Accepted == {r \in inflight : r.pc # "consume"}

\* C6 as stated: the allow-list accepts a URL only when it is an absolute
\* HTTPS URL of www.whitehouse.gov whose path starts with feed, briefing-room
\* or wp-json and does not leave that prefix through dot-dot segments.
C6_AcceptsOnlyWithinPrefix ==
    \A r \in Accepted :
        /\ \E p \in Prefixes : StartsWithCI(r.url, Origin \o p)
        /\ ~LeavesPrefix(r.url)

\* C7: an upstream request, a cache read or a cache write is made only for a
\* request whose decoded URL the allow-list accepts; a request whose url is
\* disallowed makes none of them and, once admitted, is answered 400.
C7_NoOutboundForDisallowedUrl ==
    /\ \A r \in inflight :
          (r.reads > 0 \/ r.fetches > 0 \/ r.writes > 0)
             => /\ r.query \in AllowedQueries
                /\ r.url = Decoded[r.query].str
    /\ (last.reads > 0 \/ last.fetches > 0 \/ last.writes > 0)
          => last.query \in AllowedQueries
    /\ (last.status # 0 /\ Disallowed(last.query))
          => /\ last.reads = 0 /\ last.fetches = 0 /\ last.writes = 0
             /\ last.admitted => last.status = 400

C7_Witness ==
    /\ last.query = EvilUrl
    /\ last.status = 400
    /\ last.fetches = 0
    /\ nreq = 2

\* C8 as stated: an admitted request whose url parameter is missing or
\* malformed is answered 400, never 500, and makes no upstream call.
C8_MalformedUrlGets400 ==
    (last.status # 0 /\ last.admitted /\ Malformed(last.query))
       => last.status = 400 /\ last.fetches = 0

\* C9 as stated: the url parameter is decoded once, and a request whose
\* once-decoded URL still holds a percent-encoded layer is rejected with 400
\* and reaches neither the cache nor upstream.
C9_SecondEncodedLayerRejected ==
    /\ \A r \in Accepted : r.url = Decoded[r.query].str /\ ~HasEncodedLayer(r.url)
    /\ (last.status # 0 /\ last.admitted /\ Decoded[last.query].ok
                        /\ HasEncodedLayer(Decoded[last.query].str))
          => last.status = 400 /\ last.fetches = 0

(***************************************************************************)
(* Cache                                                                   *)
(***************************************************************************)
\* C10: a call whose cache read finds that a successful call stored the URL
\* less than CACHE_TTL ago is a hit: it makes no upstream call and answers
\* with the body, Content-Type and Cache-Control of that call's response.
C10_CacheHitIdenticalNoFetch ==
    /\ \A r \in inflight : r.fetches > 0 => r.seen.age >= CACHE_TTL
    /\ (last.reads > 0 /\ last.seen.age < CACHE_TTL) => last.hit
    /\ last.hit => /\ last.status = 200
                   /\ last.fetches = 0 /\ last.writes = 0
                   /\ last.seen.age < CACHE_TTL
                   /\ last.body = last.seen.body
                   /\ last.ctype = last.seen.ctype
                   /\ last.maxAge = last.seen.maxAge

C10_Witness ==
    /\ last.hit
    /\ last.query = EncodedFeedUrl
    /\ last.seen.age > 0
    /\ stored[FeedUrl].body = last.body

\* C11: a response served from the cache comes from an entry written less
\* than CACHE_TTL ago; the store holds an entry exactly while it is younger
\* than CACHE_TTL, with the rest of its time to live, and a read that finds
\* the entry expired is a miss, whether the entry has served hits or not.
C11_NeverServedPastTtl ==
    /\ \A k \in Keys : IsHit(cache[k]) <=> stored[k].age < CACHE_TTL
    /\ \A k \in Keys : IsHit(cache[k]) => cache[k].ttl = CACHE_TTL - stored[k].age
    /\ last.hit => last.seen.age < CACHE_TTL
    /\ \A r \in inflight :
          (r.pc \in {"fetch", "cacheSet"} /\ r.seen.hit) => r.seen.age >= CACHE_TTL

C11_Witness ==
    \E r \in inflight :
        /\ r.pc = "fetch"
        /\ r.seen.hit
        /\ r.seen.age >= CACHE_TTL
        /\ ~IsHit(cache[r.url])

\* C12: a call that finds the entry of its URL expired makes exactly one
\* upstream fetch; when the fetch succeeds it makes one write, after which the
\* store holds the fresh body and Content-Type with the whole of CACHE_TTL to
\* live, and a call that reads within CACHE_TTL of the write is a hit.
C12_RefetchAfterExpiryOverwrites ==
    /\ \A r \in inflight :
          /\ r.fetches <= 1 /\ r.writes <= 1
          /\ (r.reads > 0 /\ r.pc # "cacheGet" /\ r.seen.age >= CACHE_TTL) => r.fetches = 1
    /\ (last.reads > 0 /\ last.seen.age >= CACHE_TTL) => last.fetches = 1
    /\ (last.status = 200 /\ ~last.hit) => last.fetches = 1 /\ last.writes = 1
    /\ \A k \in Keys :
          stored[k].age < CACHE_TTL =>
             cache[k] = [data |-> text(stored[k].up.body), ctype |-> stored[k].up.ctype,
                         maxAge |-> CACHE_TTL, ttl |-> CACHE_TTL - stored[k].age]
    /\ (last.reads > 0 /\ last.seen.age < CACHE_TTL) => last.hit /\ last.fetches = 0

C12_Witness ==
    /\ last.hit
    /\ last.seen.renewed
    /\ last.seen.up = Utf8FeedV2

\* C13: a step in which a cache read is answered as a hit leaves every key
\* of the store as it was: the entry read keeps its value and its time to
\* live, no cache key and no rate-limit key is created, changed or removed.
C13_HitLeavesStoreUnchanged ==
    [][(\E r \in inflight :
           /\ r.pc = "cacheGet"
           /\ r \notin inflight'
           /\ storeUp
           /\ IsHit(cache[CacheKey(r.url)]))
         => (cache' = cache /\ rl' = rl)]_vars

C13_Witness ==
    /\ last.hit
    /\ last.seen.age = 1
    /\ stored[Decoded[last.query].str].age = 1
    /\ cache[Decoded[last.query].str].ttl = CACHE_TTL - 1
    /\ cache[Decoded[last.query].str].data = text(last.seen.up.body)

\* The step creates or overwrites the entry of key k.
WrittenInStep(k) ==
    /\ IsHit(cache'[k])
    /\ \/ cache'[k].ttl > cache[k].ttl
       \/ cache'[k].data # cache[k].data
       \/ cache'[k].ctype # cache[k].ctype

OriginOfLast == IF last.hit THEN last.seen.up ELSE last.up

\* C15 as stated: the body and the Content-Type of every successful
\* response, fresh or from the cache, equal the body and the Content-Type
\* upstream returned to the fetch that produced it.
C15_BodyAndContentTypePreserved ==
    last.status = 200 =>
        /\ last.body = OriginOfLast.body
        /\ last.ctype = OriginOfLast.ctype

\* C16: under every interleaving of requests that miss the same key, each
\* makes at most one fetch and is answered with what it fetched itself; the
\* key holds one entry, that of the write that came last, and the entry is
\* the text and the Content-Type of one answer of upstream, never a mixture.
C16_ConcurrentMissesLastWriterWins ==
    /\ \A r \in inflight : r.fetches <= 1 /\ r.writes <= r.fetches
    /\ last.fetches <= 1
    /\ (last.status = 200 /\ ~last.hit) =>
          /\ last.body = Utf8Encode(text(last.up.body))
          /\ last.ctype = setCharset(last.up.ctype)
    /\ \A k \in Keys :
          IsHit(cache[k]) =>
             /\ cache[k].data = text(stored[k].up.body)
             /\ cache[k].ctype = stored[k].up.ctype
             /\ stored[k].up \in Upstream
    /\ (last.status = 200 /\ ~last.hit /\ stored[Decoded[last.query].str].age = 0) =>
          stored[Decoded[last.query].str].up = last.up

C16_Witness ==
    /\ inflight = {}
    /\ last.status = 200
    /\ ~last.hit
    /\ last.seen.age >= CACHE_TTL
    /\ stored[Decoded[last.query].str].over
    /\ stored[Decoded[last.query].str].up = last.up
    /\ cache[Decoded[last.query].str].data = text(last.up.body)
    /\ last.up = Utf8FeedV2

(***************************************************************************)
(* Failures                                                                *)
(***************************************************************************)
\* C17 as stated: a request whose cache read fails because the store is
\* unreachable goes on as after a miss, so every answered request that has
\* issued its cache read and was not a hit has made its upstream fetch.
C17_StoreFailureOnReadIsMiss ==
    (last.status # 0 /\ last.reads > 0 /\ ~last.hit) => last.fetches = 1

C19_OtherMethodsGet405 ==
    (last.method # "" /\ last.method # "GET") =>
        /\ last.status = 405
        /\ ~last.admitted
        /\ last.reads = 0 /\ last.fetches = 0 /\ last.writes = 0

C21_EveryAdmittedRequestAnswered ==
    \A s \in Slots :
        (\E r \in inflight : r.slot = s /\ r.pc = "fetch")
            ~> ~(\E r \in inflight : r.slot = s /\ r.pc = "fetch")

(***************************************************************************)
(* C22: for every feed document, extract returns exactly the items that    *)
(* have a category whose text is exactly "Presidential Actions", each once *)
(* and in the order of the feed; items without such a category are never   *)
(* in the result.                                                          *)
(***************************************************************************)
\* The positions of the items of a feed that carry the category.
Wanted(doc) ==
    {i \in DOMAIN doc : \E c \in DOMAIN doc[i].cats : doc[i].cats[c] = "Presidential Actions"}

\* The j-th of these positions, in the order of the feed.
NthWanted(doc, j) ==
    CHOOSE i \in Wanted(doc) : Cardinality({k \in Wanted(doc) : k < i}) = j - 1

C22_ExtractKeepsExactlyTheCategory ==
    lastLoad.outcome = "success" =>
        /\ Len(lastLoad.list) = Cardinality(Wanted(lastLoad.doc))
        /\ \A j \in DOMAIN lastLoad.list :
               /\ lastLoad.list[j].link = lastLoad.doc[NthWanted(lastLoad.doc, j)].link
               /\ lastLoad.list[j].pubDate = lastLoad.doc[NthWanted(lastLoad.doc, j)].pubDate

\* The feed of five items gave its second and its fifth item, in this order.
C22_Witness ==
    /\ lastLoad.outcome = "success"
    /\ lastLoad.doc = FeedFive
    /\ Len(lastLoad.list) = 2
    /\ lastLoad.list[1].link = <<"u", "2">>
    /\ lastLoad.list[2].title = <<"e">>

(***************************************************************************)
(* C23: every text of the feed that is put into the markup of a card       *)
(* (title, description, link, publication date), from a fresh fetch or     *)
(* from the stored list, is HTML-escaped: as element content it holds no   *)
(* angle bracket, as an attribute value no angle bracket and no quote.     *)
(***************************************************************************)
SafeAsContent(str) == \A i \in DOMAIN str : str[i] \notin {"<", ">"}

SafeAsAttribute(str) == \A i \in DOMAIN str : str[i] \notin {"<", ">", "\""}

C23_EveryDisplayedFieldEscaped ==
    \A i \in DOMAIN view.cards :
        /\ SafeAsContent(view.cards[i].date)
        /\ SafeAsContent(view.cards[i].title)
        /\ SafeAsContent(view.cards[i].summary)
        /\ SafeAsAttribute(view.cards[i].href)

(***************************************************************************)
(* C24: the load of the page makes no network request if and only if both  *)
(* stored entries are present and the time since the stored timestamp is   *)
(* strictly less than the TTL; it then shows the stored list.  Otherwise   *)
(* (an entry absent, or the age equal to or above the TTL) it fetches.     *)
(***************************************************************************)
C24_CacheUsedIffPresentAndFresh ==
    lastCheck.n > 0 =>
        /\ ~lastCheck.network <=>
               /\ lastCheck.dataPresent
               /\ lastCheck.timePresent
               /\ lastCheck.age < CLIENT_CACHE_TTL
        /\ ~lastCheck.network =>
               lastCheck.cards =
                   [i \in 1..Len(lastCheck.list) |-> createActionCard(lastCheck.list[i])]

\* A page load that showed a stored list of two items, written one tick
\* before at a time with one digit and read at a time with two.
C24_Witness ==
    /\ lastCheck.n > 0
    /\ ~lastCheck.network
    /\ lastCheck.age = CLIENT_CACHE_TTL - 1
    /\ Len(lastCheck.cards) = 2
    /\ Len(lsTime.value) = 1
    /\ Len(toString(now)) = 2

(***************************************************************************)
(* C25: in a load that goes to the network and whose fetches all fail, the *)
(* failed fetches are retried up to MAX_RETRIES = 3 times, with a wait of  *)
(* 2 seconds before each retry; after the third retry has failed the error *)
(* is shown and no further fetch is made.                                  *)
(***************************************************************************)
C25_ThreeRetriesThenError ==
    /\ \A l \in loads :
           /\ l.attempts <= MAX_RETRIES + 1
           /\ l.pc # "wait" => l.waits = l.attempts - 1
    /\ lastLoad.outcome = "error" =>
           /\ lastLoad.attempts = MAX_RETRIES + 1
           /\ lastLoad.failures = MAX_RETRIES + 1
           /\ lastLoad.waits = MAX_RETRIES
           /\ lastLoad.delay = MAX_RETRIES * RetryDelay
           /\ lastLoad.shown = FailureMessage

(***************************************************************************)
(* C26: when the network fails k times (k <= 3) and then succeeds, the     *)
(* load succeeds on fetch k+1 after exactly k waits of 2 seconds, shows    *)
(* the fetched items, and the retry counter is 0 afterwards.  So a load    *)
(* that succeeded made one fetch and one wait per failure, and no load     *)
(* gives up while it has failed at most 3 times.                           *)
(***************************************************************************)
C26_SuccessAfterFailures ==
    /\ lastLoad.outcome = "success" =>
           /\ lastLoad.attempts = lastLoad.failures + 1
           /\ lastLoad.waits = lastLoad.failures
           /\ lastLoad.delay = lastLoad.failures * RetryDelay
           /\ lastLoad.countAfter = 0
           /\ lastLoad.cards =
                  [i \in 1..Len(lastLoad.list) |-> createActionCard(lastLoad.list[i])]
    /\ lastLoad.outcome = "error" => lastLoad.failures > MAX_RETRIES

(***************************************************************************)
(* C27: the retry budgets of separate loads are independent: every load    *)
(* that goes to the network, also one started by the retry button after an *)
(* earlier load used up its retries and one that overlaps a load still in  *)
(* progress, retries its own failed fetches up to 3 times, whatever other  *)
(* loads have used.                                                        *)
(***************************************************************************)
C27_IndependentRetryBudgets ==
    /\ \A l \in loads : l.pc = "wait" => l.failures <= MAX_RETRIES
    /\ lastLoad.outcome = "error" => lastLoad.attempts - 1 = MAX_RETRIES

(***************************************************************************)
(* C28: after every fetch cycle that succeeds (a 2xx response whose body   *)
(* was read and extracted), the retry counter is 0 and the stored entries  *)
(* are replaced as a whole: the stored list is the list extracted from     *)
(* this response, with nothing of the list before, and the stored          *)
(* timestamp is the time of this cycle.                                    *)
(***************************************************************************)
\* What the claim asks of the state after the cycle of the run that ended.
CacheReplaced ==
    /\ retryCount' = 0
    /\ lsData'.present
    /\ lsTime'.present
    /\ JSONparse(lsData'.value) = extractActionsFromXML(lastLoad'.doc)
    /\ ~parseInt(lsTime'.value).nan
    /\ parseInt(lsTime'.value).val = now

C28_SuccessReplacesCache ==
    [][(lastLoad'.n # lastLoad.n /\ lastLoad'.outcome = "success") => CacheReplaced]_vars

\* A run that failed once, then replaced the list of two items that had
\* expired by the list of one item, and left the counter at 0.
C28_Witness ==
    /\ lastLoad.outcome = "success"
    /\ lastLoad.failures > 0
    /\ lastLoad.via = "open"
    /\ Len(lastCheck.list) = 2
    /\ lastLoad.doc = FeedOne
    /\ lsData.present
    /\ JSONparse(lsData.value) = extractActionsFromXML(FeedOne)
    /\ lsTime.value = toString(lastLoad.at)
    /\ retryCount = 0

\* The statement with a success taken to be any 2xx response received: it
\* fails when the body of the response cannot be read.
C28_Every2xxReplacesCache ==
    [][(lastLoad'.n # lastLoad.n /\ lastLoad'.outcome \in {"success", "body"})
           => CacheReplaced]_vars

(***************************************************************************)
(* C29: when the extraction gives an empty list, the load ends as a        *)
(* success: no retry is made, the failure message of handleError is not    *)
(* shown, the retry counter is set to 0, the empty list is stored with the *)
(* time of the load, and the page shows the "no results" message.          *)
(***************************************************************************)
C29_EmptyListIsSuccess ==
    [][(/\ lastLoad'.n # lastLoad.n
        /\ lastLoad'.doc # <<>>
        /\ extractActionsFromXML(lastLoad'.doc) = <<>>)
           => /\ lastLoad'.outcome = "success"
              /\ Cardinality(loads') < Cardinality(loads)
              /\ \A l \in loads' : l \in loads
              /\ retryCount' = 0
              /\ lsData'.present
              /\ JSONparse(lsData'.value) = <<>>
              /\ lsTime' = StoredItem(toString(now))
              /\ view'.cards = <<>>
              /\ view'.error = NoResultsMessage
              /\ ~view'.loading]_vars

\* A load that failed once, then received a feed with no item of the
\* category.
C29_Witness ==
    /\ lastLoad.outcome = "success"
    /\ lastLoad.doc = FeedNone
    /\ lastLoad.failures = 1
    /\ lastLoad.attempts = 2
    /\ retryCount = 0
    /\ lsData.present
    /\ JSONparse(lsData.value) = <<>>
    /\ view.error = NoResultsMessage

(***************************************************************************)
(* C30: the two stored entries of the client are set and removed together: *)
(* after every handler the list entry is present if and only if the        *)
(* timestamp entry is, and a manual refresh has removed both when it       *)
(* starts its fetch.                                                       *)
(***************************************************************************)
C30_EntriesSetAndClearedTogether ==
    [][/\ lsData'.present <=> lsTime'.present
       /\ (nloads' # nloads /\ \E l \in loads' : l.via = "refresh" /\ l \notin loads)
              => /\ ~lsData'.present
                 /\ ~lsTime'.present
                 /\ \E l \in loads' : l.via = "refresh" /\ l.pc = "fetch"
                                         /\ l.attempts = 1]_vars

\* A refresh of a page that had both entries, its fetch begun.
C30_Witness ==
    /\ ~lsData.present
    /\ ~lsTime.present
    /\ written.at > 0
    /\ lastLoad.outcome = "success"
    /\ \E l \in loads : l.via = "refresh" /\ l.pc = "fetch" /\ l.attempts = 1

(***************************************************************************)
(* C31: every load that goes to the network ends, and it ends in exactly   *)
(* one of two visible outcomes: the extracted items are shown, or the      *)
(* failure message with its retry button is shown; no load fails with      *)
(* neither shown.                                                          *)
(***************************************************************************)
C31_EveryLoadEndsInOneVisibleOutcome ==
    /\ \A s \in LoadSlots :
           (\E l \in loads : l.slot = s) ~> ~(\E l \in loads : l.slot = s)
    /\ [][lastLoad'.n # lastLoad.n =>
              IF lastLoad'.outcome = "success"
              THEN /\ view'.cards =
                          [i \in 1..Len(lastLoad'.list) |->
                              createActionCard(lastLoad'.list[i])]
                   /\ view'.error # FailureMessage
              ELSE view'.error = FailureMessage]_vars

(***************************************************************************)
(* C32: the search handler runs only when 300 ms have passed without a     *)
(* further input event: for a burst of input events, each less than 300 ms *)
(* after the one before, it runs exactly once, 300 ms after the last event *)
(* and with the value of the last event; it filters the cards that are on  *)
(* the page and neither starts a fetch nor changes the stored entries.     *)
(***************************************************************************)
C32_SearchDebounced ==
    [][/\ searchLog'.n # searchLog.n =>
              /\ searchLog.since = DebounceWait
              /\ searchLog'.runs = 1
              /\ searchLog'.term = toLowerCase(searchLog.typed)
              /\ searchLog'.visible \subseteq DOMAIN view.cards
              /\ UNCHANGED <<loads, lsData, lsTime, view, nloads>>
       /\ \A t \in search'.timers : searchLog'.since + t.left = DebounceWait
       /\ (searchLog'.inputs > 0 /\ search'.timers = {}) => searchLog'.runs = 1]_vars

\* Three input events less than 300 ms apart, then one run of the handler,
\* with the value of the third, that left the first of two cards visible.
C32_Witness ==
    /\ searchLog.burst = 3
    /\ searchLog.n = 1
    /\ searchLog.runs = 1
    /\ searchLog.typed = <<"B">>
    /\ searchLog.term = <<"b">>
    /\ Len(view.cards) = 2
    /\ searchLog.visible = {1}

(***************************************************************************)
(* C33: in every reachable state of the client, also with loads that       *)
(* overlap and with repeated refreshes, the shared retry counter satisfies *)
(* 0 <= retryCount <= MAX_RETRIES.                                         *)
(***************************************************************************)
C33_RetryCountInRange == retryCount \in 0..MAX_RETRIES

\* Two loads in progress at once, the counter at its maximum.
C33_Witness ==
    /\ retryCount = MAX_RETRIES
    /\ Cardinality(loads) = 2
    /\ \A l \in loads : l.failures > 0

(***************************************************************************)
(* C34: a load that ends in failure (its fetches all failed, or the        *)
(* response could not be read or extracted, as when a kept item lacks an   *)
(* element) writes nothing to the stored entries: the step that ends it    *)
(* leaves both as they were, no step of a load before its successful end   *)
(* changes them, and when no other load or refresh overlapped they are the *)
(* same after the load as before its network phase began.                  *)
(***************************************************************************)
SameItem(a, b) == a.present = b.present /\ (a.present => a.value = b.value)

\* A load ends in failure on this step.
EndsInFailure(l) ==
    /\ l \notin loads'
    /\ lastLoad'.n # lastLoad.n
    /\ lastLoad'.outcome # "success"

C34_FailedLoadWritesNothing ==
    [][/\ \A l \in loads :
              EndsInFailure(l) =>
                  /\ SameItem(lsData', lsData)
                  /\ SameItem(lsTime', lsTime)
                  /\ ~l.overlapped =>
                         /\ SameItem(lsData', l.before.data)
                         /\ SameItem(lsTime', l.before.time)
       /\ (~SameItem(lsData', lsData) \/ ~SameItem(lsTime', lsTime)) =>
              \/ nloads' # nloads
              \/ lastLoad'.n # lastLoad.n /\ lastLoad'.outcome = "success"]_vars

\* A load ended on the item without description while the list that an
\* overlapping load had stored stayed in place.
C34_Witness ==
    /\ lastLoad.outcome = "extract"
    /\ lastLoad.doc = FeedBroken
    /\ lsData.present
    /\ lsTime.present
    /\ JSONparse(lsData.value) = extractActionsFromXML(FeedOne)
    /\ written.list = extractActionsFromXML(FeedOne)

\* The statement for every load, overlapped or not: the entries after a
\* failed load are those from before its network phase.
C34_EntriesAsBeforeTheLoad ==
    [][\A l \in loads :
           EndsInFailure(l) =>
               /\ SameItem(lsData', l.before.data)
               /\ SameItem(lsTime', l.before.time)]_vars

(***************************************************************************)
(* C35: the state of the rate limit is independent per client identifier:  *)
(* the requests of a client A change nothing that decides the admission of *)
(* a client B.  The counter of a client changes only when one of its own   *)
(* requests is counted or time passes, and the admission of a request is   *)
(* decided by the earlier admissions and rejections of its own client.     *)
(***************************************************************************)
\* The request whose consume is made on this step.
Counted(r) == r \in inflight /\ r.pc = "consume" /\ r \notin inflight'

C35_RateLimitPerClient ==
    [][/\ \A c \in Clients :
              rl'[c] # rl[c] =>
                  \/ \E r \in inflight : Counted(r) /\ r.client = c
                  \/ inflight' = inflight /\ nreq' = nreq
       /\ \A r \in inflight :
              Counted(r) =>
                  /\ lastConsume'.client = r.client
                  /\ lastConsume'.admitted <=>
                         \/ window[r.client].rejAge = -1 /\ window[r.client].count < Points
                         \/ window[r.client].rejAge >= BlockDuration
                  /\ \A c \in Clients \ {r.client} : window'[c] = window[c]]_vars

\* A request of one client admitted while the other client is blocked.
C35_Witness ==
    /\ lastConsume.admitted
    /\ \E c \in Clients \ {lastConsume.client} :
           /\ window[c].rejAge >= 0
           /\ window[c].rejAge < BlockDuration
           /\ rl[c].consumed > Points
    /\ rl[lastConsume.client].consumed = 1

(***************************************************************************)
(* C36: admission control runs before the URL validation and before the    *)
(* cache lookup, so every GET /proxy request takes exactly one point of    *)
(* its client's budget whatever its outcome: requests answered 400 (no URL *)
(* or a URL that is not allowed) and requests served from the cache count  *)
(* towards N like requests that fetch upstream.                            *)
(***************************************************************************)
\* The points a counter holds while its key lives.
PointsOf(e) == IF e.ttl > 0 THEN e.consumed ELSE 0

C36_EveryRequestConsumesOnePoint ==
    [][/\ \A r \in inflight :
              Counted(r) =>
                  /\ r.reads = 0 /\ r.fetches = 0 /\ r.writes = 0
                  /\ rl'[r.client].consumed = PointsOf(rl[r.client]) + 1
                  /\ lastConsume'.admitted <=> rl'[r.client].consumed <= Points
       /\ \A r \in inflight' :
              r.pc # "consume" => \E o \in inflight : o.slot = r.slot
       /\ (last' # last /\ last'.status # 429) =>
              /\ last'.admitted
              /\ \E r \in inflight : r.slot \notin {o.slot : o \in inflight'}
                                        /\ (r.pc = "consume" => Counted(r))]_vars

\* A request without URL, answered 400, took the last point of a window in
\* which a request was served from the cache.
C36_Witness ==
    /\ last.status = 400
    /\ last.error = "Missing URL parameter"
    /\ rl[last.client].ttl > 0
    /\ rl[last.client].consumed = Points
    /\ window[last.client].count = Points
    /\ \E k \in Keys : stored[k].hit /\ stored[k].age < Duration

====
